---- MODULE Spec2Model ----
(***************************************************************************)
(* Model of app.py, the comment-clip HTML e-mail generator.                *)
(*                                                                         *)
(* Strings are sequences of symbols.  A symbol is one character ("a", "<", *)
(* " "), a character named by its code point ("U+3000" is the full-width   *)
(* space, "U+540D" the placeholder monogram), or a run of ordinary         *)
(* characters that no operation of the program looks into ("#c7d2fe",      *)
(* "#article").  Python's None is the one-symbol value None.               *)
(* A rendered fragment is the record of the values the f-string template   *)
(* interpolates, in the template's order; the fixed markup between them is *)
(* the same for every input and is left out.                               *)
(***************************************************************************)
EXTENDS Integers, Sequences, FiniteSets, TLC

(***************************************************************************)
(* Characters and Python string primitives                                 *)
(***************************************************************************)
SP  == " "
FW  == "U+3000"
TAB == "\t"
NL  == "\n"

None == <<"None">>
EmptyStr == <<>>

\* str.strip() with no argument removes every Unicode whitespace character
Whitespace == {SP, FW, TAB, NL}

\* the character class of re.split(r"[ 　]+", ...)
SplitChars == {SP, FW}

Truthy(s) == s # EmptyStr /\ s # None

\* x or y
Or(x, y) == IF Truthy(x) THEN x ELSE y

\* s[:1]
First1(s) == IF Len(s) >= 1 THEN SubSeq(s, 1, 1) ELSE EmptyStr

RECURSIVE lstrip(_)
lstrip(s) ==
  IF s # EmptyStr /\ Head(s) \in Whitespace THEN lstrip(Tail(s)) ELSE s

RECURSIVE rstrip(_)
rstrip(s) ==
  IF s # EmptyStr /\ s[Len(s)] \in Whitespace
  THEN rstrip(SubSeq(s, 1, Len(s) - 1))
  ELSE s

strip(s) == rstrip(lstrip(s))

\* length of the run of split characters that starts at position i of s
RECURSIVE RunLen(_, _)
RunLen(s, i) ==
  IF i <= Len(s) /\ s[i] \in SplitChars THEN 1 + RunLen(s, i + 1) ELSE 0

\* position of the first split character of s at or after i, 0 if none
RECURSIVE FirstSplit(_, _)
FirstSplit(s, i) ==
  IF i > Len(s) THEN 0
  ELSE IF s[i] \in SplitChars THEN i
  ELSE FirstSplit(s, i + 1)

\* re.split(r"[ 　]+", s): the list of tokens between maximal runs
RECURSIVE re_split(_)
re_split(s) ==
  LET p == FirstSplit(s, 1) IN
    IF p = 0 THEN <<s>>
    ELSE <<SubSeq(s, 1, p - 1)>> \o
         re_split(SubSeq(s, p + RunLen(s, p), Len(s)))

\* the result of a call that may raise
Ok(v)    == [exc |-> "none", val |-> v]
Raise(e) == [exc |-> e, val |-> EmptyStr]

\* dict.get(k, d) on a row whose keys may be missing
Get(r, k, d) == IF k \in DOMAIN r THEN r[k] ELSE d

(***************************************************************************)
(* Utilities                                                               *)
(***************************************************************************)
\* mutant: the ampersand is left as it is
EscapeCharKeepAmp(c) ==
  CASE c = "<"  -> <<"&", "l", "t", ";">>
    [] c = ">"  -> <<"&", "g", "t", ";">>
    [] c = "\"" -> <<"&", "q", "u", "o", "t", ";">>
    [] c = "'"  -> <<"&", "#", "x", "2", "7", ";">>
    [] OTHER    -> <<c>>

\* html.escape(c, quote=True) of one character
EscapeChar(c) ==
  CASE c = "&"  -> <<"&", "a", "m", "p", ";">>
    [] c = "<"  -> <<"&", "l", "t", ";">>
    [] c = ">"  -> <<"&", "g", "t", ";">>
    [] c = "\"" -> <<"&", "q", "u", "o", "t", ";">>
    [] c = "'"  -> <<"&", "#", "x", "2", "7", ";">>
    [] OTHER    -> <<c>>

RECURSIVE html_escape(_)
html_escape(s) ==
  IF s = EmptyStr THEN EmptyStr ELSE EscapeChar(Head(s)) \o html_escape(Tail(s))

BR == <<"<", "b", "r", ">">>

\* mutant: only the first newline is replaced
nl2br_first(s) ==
  IF \E i \in 1..Len(s) : s[i] = NL
  THEN LET p == CHOOSE i \in 1..Len(s) :
                  s[i] = NL /\ \A j \in 1..(i - 1) : s[j] # NL
       IN SubSeq(s, 1, p - 1) \o BR \o SubSeq(s, p + 1, Len(s))
  ELSE s

\* .replace("\n", "<br>")
RECURSIVE nl2br(_)
nl2br(s) ==
  IF s = EmptyStr THEN EmptyStr
  ELSE (IF Head(s) = NL THEN BR ELSE <<Head(s)>>) \o nl2br(Tail(s))

escape_nl2br(text) ==
  IF text = None THEN EmptyStr ELSE nl2br(html_escape(text))

Placeholder == <<"U+540D">>

\* mutant: the first character of the name as written, without trimming
auto_monogram_raw(full_name) ==
  IF ~Truthy(full_name) THEN Ok(Placeholder) ELSE Ok(<<full_name[1]>>)

\* auto_monogram: the last line indexes the stripped name, which is empty
\* whenever that line is reached, so it raises IndexError
auto_monogram(full_name) ==
  IF ~Truthy(full_name) THEN Ok(Placeholder)
  ELSE LET tokens == re_split(strip(full_name)) IN
         IF Len(tokens) > 0 /\ tokens[1] # EmptyStr
         THEN Ok(<<tokens[1][1]>>)
         ELSE IF strip(full_name) = EmptyStr
              THEN Raise("IndexError")
              ELSE Ok(<<strip(full_name)[1]>>)

palette == << <<"#c7d2fe">>, <<"#a5b4fc">> >>

\* mutant: the cycle never advances
color_cycle_stuck(idx) == palette[1]

color_cycle(idx) == palette[(idx % Len(palette)) + 1]

\* f"#article{n}"
Anchor(n) == <<"#article", ToString(n)>>

DefaultBar == <<"#2563eb">>
ChipDefault == <<"#eef2f7">>

(***************************************************************************)
(* render_card: one article with one comment                               *)
(***************************************************************************)
\* (link_url or f"#article{idx+1}").strip()
LinkTarget(link_url, idx) == strip(Or(link_url, Anchor(idx + 1)))

\* (monogram or auto_monogram(commenter_name)).strip()[:1] or "名"
MonoSingle(monogram, commenter_name) ==
  IF Truthy(monogram)
  THEN Ok(Or(First1(strip(monogram)), Placeholder))
  ELSE LET a == auto_monogram(commenter_name) IN
         IF a.exc # "none" THEN a
         ELSE Ok(Or(First1(strip(a.val)), Placeholder))

render_card(idx, issue_label, article_title, comment_text, commenter_name, commenter_org, link_url, strip_color, monogram, comment_bar_color, commenter_bio) ==
  LET _mono == MonoSingle(monogram, commenter_name) IN
    IF _mono.exc # "none" THEN Raise(_mono.exc)
    ELSE Ok([kind              |-> "single",
             strip_color       |-> Or(strip_color, color_cycle(idx)),
             issue_label       |-> escape_nl2br(issue_label),
             article_title     |-> escape_nl2br(article_title),
             comment_bar_color |-> comment_bar_color,
             comment_text      |-> escape_nl2br(comment_text),
             mono              |-> _mono.val,
             commenter_name    |-> escape_nl2br(commenter_name),
             commenter_org     |-> escape_nl2br(commenter_org),
             bio_html          |-> escape_nl2br(Or(commenter_bio, EmptyStr)),
             link_url          |-> LinkTarget(link_url, idx)])

(***************************************************************************)
(* render_card_grouped: one article with its aggregated comments           *)
(***************************************************************************)
ChipLimit == 5

\* (e.get("monogram") or auto_monogram(e.get("name", "")))[:1] or "名"
MonoGrouped(e) ==
  IF Truthy(Get(e, "monogram", None))
  THEN Ok(Or(First1(Get(e, "monogram", None)), Placeholder))
  ELSE LET a == auto_monogram(Get(e, "name", EmptyStr)) IN
         IF a.exc # "none" THEN a
         ELSE Ok(Or(First1(a.val), Placeholder))

\* one element of comment_blocks
CommentBlock(e) ==
  [bar     |-> Or(Get(e, "comment_bar_color", None), DefaultBar),
   comment |-> escape_nl2br(Get(e, "comment", EmptyStr)),
   mono    |-> MonoGrouped(e).val,
   name    |-> escape_nl2br(Get(e, "name", EmptyStr)),
   org     |-> escape_nl2br(Get(e, "org", EmptyStr)),
   bio     |-> escape_nl2br(Or(Get(e, "bio", EmptyStr), EmptyStr))]

\* one chip avatar of chips_html
Chip(e) ==
  [bg |-> Get(e, "comment_bar_color", ChipDefault), m |-> MonoGrouped(e).val]

Min(a, b) == IF a < b THEN a ELSE b

render_card_grouped(idx, issue_label, article_title, link_url, strip_color, entries) ==
  LET n == Len(entries)
      commentators == [i \in 1..n |-> escape_nl2br(Get(entries[i], "name", EmptyStr))]
  IN
    IF \E i \in 1..n : MonoGrouped(entries[i]).exc # "none"
    THEN Raise("IndexError")
    ELSE Ok([kind          |-> "grouped",
             strip_color   |-> Or(strip_color, color_cycle(idx)),
             issue_label   |-> escape_nl2br(issue_label),
             article_title |-> escape_nl2br(article_title),
             n_entries     |-> n,
             n_names       |-> Cardinality({commentators[i] : i \in 1..n}),
             chips         |-> [i \in 1..Min(n, ChipLimit) |-> Chip(entries[i])],
             more_badge    |-> IF n > ChipLimit
                               THEN <<"+", ToString(n - ChipLimit)>>
                               ELSE EmptyStr,
             blocks        |-> [i \in 1..n |-> CommentBlock(entries[i])],
             link_url      |-> LinkTarget(link_url, idx)])

(***************************************************************************)
(* group_cards_by_article                                                  *)
(***************************************************************************)
\* mutant: the key is built from the untrimmed fields
KeyOfRaw(r) == <<Get(r, "issue", EmptyStr),
                 Get(r, "title", EmptyStr),
                 Get(r, "link", EmptyStr)>>

\* key = (issue.strip(), title.strip(), link.strip())
KeyOf(r) == <<strip(Get(r, "issue", EmptyStr)),
              strip(Get(r, "title", EmptyStr)),
              strip(Get(r, "link", EmptyStr))>>

\* the dict appended to buckets[key]["entries"]
EntryOf(r) ==
  [comment           |-> Get(r, "comment", EmptyStr),
   name              |-> Get(r, "name", EmptyStr),
   org               |-> Get(r, "org", EmptyStr),
   bio               |-> Get(r, "bio", EmptyStr),
   monogram          |-> Get(r, "monogram", EmptyStr),
   comment_bar_color |-> Get(r, "comment_bar_color", DefaultBar)]

\* the bucket created for a key that is not yet in buckets
NewBucket(r) ==
  [issue       |-> strip(Get(r, "issue", EmptyStr)),
   title       |-> strip(Get(r, "title", EmptyStr)),
   link        |-> strip(Get(r, "link", EmptyStr)),
   strip_color |-> Or(Get(r, "strip_color", None), palette[1]),
   entries     |-> <<>>]

\* mutant: a later row that has a colour overrides the bucket's colour
StripAfterLater(b, r) == Or(Get(r, "strip_color", None), b.strip_color)

\* the strip colour of a bucket after a row was appended to it
StripAfter(b, r) ==
  IF ~Truthy(b.strip_color)
  THEN Or(Get(r, "strip_color", None), color_cycle(0))
  ELSE b.strip_color

\* position of key k in the insertion-ordered buckets, 0 if absent
BucketIndex(buckets, k) ==
  IF \E i \in 1..Len(buckets) : buckets[i].key = k
  THEN CHOOSE i \in 1..Len(buckets) : buckets[i].key = k
  ELSE 0

\* mutant: a new bucket is put in front of the existing ones
GroupStepFront(buckets, r) ==
  LET k  == KeyOf(r)
      b0 == IF BucketIndex(buckets, k) = 0
            THEN <<[key |-> k, val |-> NewBucket(r)]>> \o buckets
            ELSE buckets
      j  == BucketIndex(b0, k)
      b1 == [b0[j].val EXCEPT !.entries = Append(@, EntryOf(r))]
  IN [b0 EXCEPT ![j].val = [b1 EXCEPT !.strip_color = StripAfter(b1, r)]]

\* one iteration of the loop over rows; buckets is the OrderedDict as the
\* sequence of its (key, value) items in insertion order
GroupStep(buckets, r) ==
  LET k  == KeyOf(r)
      b0 == IF BucketIndex(buckets, k) = 0
            THEN Append(buckets, [key |-> k, val |-> NewBucket(r)])
            ELSE buckets
      j  == BucketIndex(b0, k)
      b1 == [b0[j].val EXCEPT !.entries = Append(@, EntryOf(r))]
  IN [b0 EXCEPT ![j].val = [b1 EXCEPT !.strip_color = StripAfter(b1, r)]]

RECURSIVE GroupLoop(_, _)
GroupLoop(rows, buckets) ==
  IF rows = <<>> THEN buckets
  ELSE GroupLoop(Tail(rows), GroupStep(buckets, Head(rows)))

\* list(buckets.values())
group_cards_by_article(rows) ==
  LET buckets == GroupLoop(rows, <<>>) IN
    [i \in 1..Len(buckets) |-> buckets[i].val]

(***************************************************************************)
(* render_email_full                                                       *)
(***************************************************************************)
Spacer == [kind |-> "spacer"]

\* "<!-- No cards -->", the fragment passed when there is no card
NoCards == [kind |-> "comment", text |-> <<"No cards">>]

\* mutant: the fragments follow each other without the separator
JoinNoSep(sep, cards) == cards

\* spacer.join(cards)
RECURSIVE Join(_, _)
Join(sep, cards) ==
  IF Len(cards) <= 1 THEN cards
  ELSE <<Head(cards), sep>> \o Join(sep, Tail(cards))

render_email_full(title_text, badge_text, header_title, delivery_text, description_text, cards) ==
  [title       |-> escape_nl2br(title_text),
   badge       |-> escape_nl2br(badge_text),
   headline    |-> escape_nl2br(header_title),
   delivery    |-> escape_nl2br(delivery_text),
   description |-> escape_nl2br(description_text),
   body        |-> Join(Spacer, cards)]

(***************************************************************************)
(* The render pass of the script: card list construction and assembly      *)
(***************************************************************************)
\* what is shown when the script produced no document
NoDoc == [kind |-> "none"]

\* the render_card call of the loop over cards_data (use_grouping off);
\* i is the 1-based position, idx = i - 1
RenderSingleAt(cards, i) ==
  LET c == cards[i] IN
    render_card(i - 1,
                Get(c, "issue", EmptyStr),
                Get(c, "title", EmptyStr),
                Get(c, "comment", EmptyStr),
                Get(c, "name", EmptyStr),
                Get(c, "org", EmptyStr),
                Get(c, "link", Anchor(i)),
                Or(Get(c, "strip_color", None), color_cycle(i - 1)),
                Get(c, "monogram", EmptyStr),
                Get(c, "comment_bar_color", DefaultBar),
                Get(c, "bio", EmptyStr))

\* the render_card_grouped call of the loop over grouped (use_grouping on)
RenderGroupedAt(groups, i) ==
  LET g == groups[i] IN
    render_card_grouped(i - 1, g.issue, g.title, g.link, g.strip_color,
                        g.entries)

\* the results of the calls that build cards_html_list
RenderCalls(cards, grouping) ==
  IF grouping
  THEN LET groups == group_cards_by_article(cards) IN
         [i \in 1..Len(groups) |-> RenderGroupedAt(groups, i)]
  ELSE [i \in 1..Len(cards) |-> RenderSingleAt(cards, i)]

\* cards_html_list, full_html and the exception that ended the script, if any
PassOf(rs, cards, grouping, hdr) ==
  LET bad == {i \in 1..Len(rs) : rs[i].exc # "none"} IN
    IF bad # {}
    THEN LET k == CHOOSE i \in bad : \A j \in bad : i <= j IN
           [grouped         |-> IF grouping THEN group_cards_by_article(cards) ELSE <<>>,
            cards_html_list |-> [i \in 1..(k - 1) |-> rs[i].val],
            full_html       |-> NoDoc,
            raised          |-> rs[k].exc]
    ELSE LET list == [i \in 1..Len(rs) |-> rs[i].val] IN
           [grouped         |-> IF grouping THEN group_cards_by_article(cards) ELSE <<>>,
            cards_html_list |-> list,
            full_html       |-> render_email_full(
                                  hdr.title_text, hdr.badge_text,
                                  hdr.header_title, hdr.delivery_text,
                                  hdr.description_text,
                                  IF list # <<>> THEN list ELSE <<NoCards>>),
            raised          |-> "none"]

\* one render pass over cards_data
RenderPass(cards, grouping, hdr) ==
  PassOf(RenderCalls(cards, grouping), cards, grouping, hdr)

\* the header inputs with the values the widgets start with
DefaultHeader ==
  [title_text       |-> <<"title">>,
   badge_text       |-> <<"COMMENT CLIP">>,
   header_title     |-> <<"headline">>,
   delivery_text    |-> <<"delivery">>,
   description_text |-> <<"description">>]

(***************************************************************************)
(* Commentator profiles                                                    *)
(***************************************************************************)
\* get_default_commentators(); org and bio are runs of ordinary characters,
\* org of the third profile is empty
get_default_commentators ==
  << [id |-> 1, name |-> <<"U+5800", "U+5185", "U+771E", "U+4E4B">>,
      org |-> <<"org(1)">>, bio |-> <<"bio(1)">>],
     [id |-> 2, name |-> <<"U+6749", "U+6751", "U+535A", "U+53F8">>,
      org |-> <<"org(2)">>, bio |-> <<"bio(2)">>],
     [id |-> 3, name |-> <<"U+533F", "U+540D">>,
      org |-> EmptyStr, bio |-> <<"bio(3)">>],
     [id |-> 4, name |-> <<"U+6E21", "U+6703", "U+76F4", "U+4E5F">>,
      org |-> <<"org(4)">>, bio |-> <<"bio(4)">>],
     [id |-> 5, name |-> <<"U+6817", "U+539F", "U+6B63", "U+660E">>,
      org |-> <<"org(5)">>, bio |-> <<"bio(5)">>],
     [id |-> 6, name |-> <<"U+80FD", "U+52E2", "U+82F1", "U+96C4">>,
      org |-> <<"org(6)">>, bio |-> <<"bio(6)">>],
     [id |-> 7, name |-> <<"U+85E4", "U+7530", "U+6709", "U+5B50">>,
      org |-> <<"org(7)">>, bio |-> <<"bio(7)">>] >>

\* ALL_COMMENTATORS, built from the commentator settings, which hold the
\* defaults: cmt_mono_i starts as auto_monogram of the default name
ALL_COMMENTATORS ==
  [i \in 1..Len(get_default_commentators) |->
     LET base     == get_default_commentators[i]
         name_i   == strip(base.name)
         mono_raw == strip(Or(auto_monogram(base.name).val, EmptyStr))
     IN [id   |-> base.id,
         name |-> name_i,
         org  |-> strip(base.org),
         bio  |-> strip(base.bio),
         mono |-> Or(First1(mono_raw), auto_monogram(name_i).val)]]

(***************************************************************************)
(* Card settings: the uploaded table                                       *)
(***************************************************************************)
\* a cell pandas read as missing
NaN == <<"NaN">>

\* str(cell)
Str(v) == IF v = NaN THEN <<"n", "a", "n">> ELSE v

required_cols == {"issue", "title", "comment", "name", "org", "link"}

\* int(float(token)) for the tokens "1" .. "7"; 0 stands for the exception
\* any other token raises
TokenId(token) ==
  IF \E k \in 1..7 : token = <<ToString(k)>>
  THEN CHOOSE k \in 1..7 : token = <<ToString(k)>>
  ELSE 0

\* None where a commentator profile is expected
NoCmt == [id |-> 0, name |-> EmptyStr, org |-> EmptyStr, bio |-> EmptyStr,
          mono |-> EmptyStr]

\* next((c for c in ALL_COMMENTATORS if <test>), None), hits being the
\* positions of ALL_COMMENTATORS that pass the test
FirstCommentator(hits) ==
  IF hits = {} THEN NoCmt
  ELSE ALL_COMMENTATORS[CHOOSE j \in hits : \A h \in hits : j <= h]

\* cmt_from_token of a row
CommentatorOfToken(token) ==
  IF ~Truthy(token) THEN NoCmt
  ELSE IF TokenId(token) # 0
       THEN FirstCommentator({j \in 1..Len(ALL_COMMENTATORS) :
                                ALL_COMMENTATORS[j].id = TokenId(token)})
       ELSE FirstCommentator({j \in 1..Len(ALL_COMMENTATORS) :
                                ALL_COMMENTATORS[j].name = token})

\* the dict appended to cards_data for the row with index i of the table,
\* cmt being the row's cmt_from_token
CardOfRowWith(row, i, cmt) ==
  LET name0 == strip(Str(Get(row, "name", EmptyStr)))
      org0  == strip(Str(Get(row, "org", EmptyStr)))
      bio0  == strip(Str(Get(row, "bio", EmptyStr)))
      mono0 == strip(Str(Get(row, "monogram", EmptyStr)))
      name_val == IF cmt # NoCmt /\ ~Truthy(name0) THEN cmt.name ELSE name0
      org_val  == IF cmt # NoCmt /\ ~Truthy(org0) THEN cmt.org ELSE org0
      bio_val  == IF cmt # NoCmt /\ ~Truthy(bio0) THEN cmt.bio ELSE bio0
      mono_val == IF cmt # NoCmt /\ ~Truthy(mono0) THEN cmt.mono ELSE mono0
  IN [issue       |-> strip(Str(Get(row, "issue", EmptyStr))),
      title       |-> strip(Str(Get(row, "title", EmptyStr))),
      comment     |-> strip(Str(Get(row, "comment", EmptyStr))),
      name        |-> name_val,
      org         |-> org_val,
      bio         |-> bio_val,
      link        |-> strip(Str(Get(row, "link", Anchor(i + 1)))),
      monogram    |-> Or(First1(mono_val), auto_monogram(name_val).val),
      strip_color |-> strip(Str(Get(row, "strip_color", EmptyStr)))]

\* one iteration of the loop over df.iterrows()
CsvCard(row, i) ==
  CardOfRowWith(row, i, CommentatorOfToken(
                          strip(Str(Get(row, "commentator", EmptyStr)))))

\* uploaded is None
NoFile == [present |-> FALSE, readable |-> FALSE, columns |-> {}, rows |-> <<>>]

Message(level, text) == [level |-> level, text |-> text]

\* mutant: the rows are read without the check of the required columns
CsvPassUnchecked(upl) ==
  IF ~upl.present THEN [cards |-> <<>>, messages |-> <<>>]
  ELSE IF ~upl.readable
  THEN [cards |-> <<>>, messages |-> <<Message("error", "read failed")>>]
  ELSE [cards    |-> [i \in 1..Len(upl.rows) |-> CsvCard(upl.rows[i], i - 1)],
        messages |-> <<Message("success", "cards loaded")>>]

\* mutant: the rows of a table without a required column are collected
\* after the error was reported
CsvPassKeepsRows(upl) ==
  IF ~upl.present THEN [cards |-> <<>>, messages |-> <<>>]
  ELSE IF ~upl.readable
  THEN [cards |-> <<>>, messages |-> <<Message("error", "read failed")>>]
  ELSE [cards    |-> [i \in 1..Len(upl.rows) |-> CsvCard(upl.rows[i], i - 1)],
        messages |-> IF required_cols \subseteq upl.columns
                     THEN <<Message("success", "cards loaded")>>
                     ELSE <<Message("error", "columns missing")>>]

\* the upload branch: cards_data and the messages it shows
CsvPass(upl) ==
  IF ~upl.present THEN [cards |-> <<>>, messages |-> <<>>]
  ELSE IF ~upl.readable
  THEN [cards |-> <<>>, messages |-> <<Message("error", "read failed")>>]
  ELSE IF ~(required_cols \subseteq upl.columns)
  THEN [cards |-> <<>>, messages |-> <<Message("error", "columns missing")>>]
  ELSE [cards    |-> [i \in 1..Len(upl.rows) |-> CsvCard(upl.rows[i], i - 1)],
        messages |-> <<Message("success", "cards loaded")>>]

(***************************************************************************)
(* Card settings: the form                                                 *)
(***************************************************************************)
\* the widget values of card i (0-based) before the script ran once
FreshCard(i) ==
  [issue   |-> <<"U+7B2C", ToString(3742 + i), "U+53F7">>,
   title   |-> EmptyStr,
   strip   |-> color_cycle(i),
   select  |-> Min((i % Len(ALL_COMMENTATORS)) + 1, Len(ALL_COMMENTATORS)),
   name    |-> EmptyStr,
   org     |-> EmptyStr,
   bio     |-> EmptyStr,
   mono    |-> EmptyStr,
   link    |-> Anchor(i + 1),
   comment |-> <<"U+1F4AC", SP>>]

\* selected_cmt: none for the manual entry (select = 0)
SelectedCmt(c) == IF c.select = 0 THEN NoCmt ELSE ALL_COMMENTATORS[c.select]

\* selected_cmt.get("mono", "") or auto_monogram(selected_cmt["name"])
ProfileMono(cmt) == Or(cmt.mono, auto_monogram(cmt.name).val)

\* mutant: every field is filled from the selected commentator
BackFillAll(c) ==
  LET cmt == SelectedCmt(c) IN
    IF cmt = NoCmt THEN c
    ELSE [c EXCEPT !.name = cmt.name, !.org = cmt.org, !.bio = cmt.bio,
                   !.mono = ProfileMono(cmt)]

\* the fields that are empty are filled from the selected commentator
BackFill(c) ==
  LET cmt == SelectedCmt(c) IN
    IF cmt = NoCmt THEN c
    ELSE [c EXCEPT !.name = IF ~Truthy(c.name) THEN cmt.name ELSE @,
                   !.org  = IF ~Truthy(c.org) THEN cmt.org ELSE @,
                   !.bio  = IF ~Truthy(c.bio) THEN cmt.bio ELSE @,
                   !.mono = IF ~Truthy(c.mono) THEN ProfileMono(cmt) ELSE @]

\* the overwrite button, pressed in this run
Overwrite(c, pressed) ==
  LET cmt == SelectedCmt(c) IN
    IF pressed /\ cmt # NoCmt
    THEN [c EXCEPT !.name = cmt.name, !.org = cmt.org, !.bio = cmt.bio,
                   !.mono = ProfileMono(cmt)]
    ELSE c

\* mono_final of a card
MonoFinal(c) ==
  IF Truthy(c.mono) THEN Ok(First1(c.mono))
  ELSE LET a == auto_monogram(c.name) IN
         IF a.exc # "none" THEN a ELSE Ok(First1(a.val))

\* the dict appended to cards_data for a card
FormCard(c, bar) ==
  [issue |-> c.issue, title |-> c.title, comment |-> c.comment,
   name |-> c.name, org |-> c.org, bio |-> c.bio, link |-> c.link,
   monogram |-> MonoFinal(c).val, strip_color |-> c.strip,
   comment_bar_color |-> bar]

\* the loop over the cards from card i on: the session state it leaves, the
\* rows it collected and the exception that ended it
RECURSIVE FormLoop(_, _, _, _, _)
\* the iteration for card i, c being its widget values after the back-fill
\* and the overwrite button
FormIter(form, i, pressed, bar, cards, c) ==
  IF MonoFinal(c).exc # "none"
  THEN [form |-> [form EXCEPT ![i] = c], cards |-> cards,
        exc |-> MonoFinal(c).exc]
  ELSE FormLoop([form EXCEPT ![i] = c], i + 1, pressed, bar,
                Append(cards, FormCard(c, bar)))

FormLoop(form, i, pressed, bar, cards) ==
  IF i > Len(form) THEN [form |-> form, cards |-> cards, exc |-> "none"]
  ELSE FormIter(form, i, pressed, bar, cards,
                Overwrite(BackFill(form[i]), pressed = i))

(***************************************************************************)
(* State                                                                   *)
(***************************************************************************)
VARIABLES
  input_mode,       \* sidebar radio: "form" or "csv"
  uploaded,         \* the file of st.file_uploader, NoFile when there is none
  session_state,    \* the widget values of the form cards, <<>> when not shown
  use_grouping,     \* the checkbox
  header,           \* the header inputs
  cards_data,       \* the rows the pass collected
  grouped,          \* the groups of the pass, empty when grouping is off
  cards_html_list,  \* the fragments the pass rendered
  full_html,        \* the document shown and offered for download
  raised,           \* the exception that ended the script, "none" otherwise
  messages,         \* the st.error / st.success messages of the pass
  fn,               \* a function under test and its arguments
  ret               \* its result

vars == <<input_mode, uploaded, session_state, use_grouping, header, cards_data, grouped,
          cards_html_list, full_html, raised, messages, fn, ret>>

uiVars == <<input_mode, uploaded, session_state, messages>>
fnVars == <<fn, ret>>

NoArgs == [full_name |-> EmptyStr, monogram |-> EmptyStr]
NotCalled == [op |-> "none", exc |-> "none", val |-> EmptyStr]

(***************************************************************************)
(* SpecRender: the render pass on any sequence of rows                     *)
(***************************************************************************)
MaxRows == 3

RECURSIVE SeqsUpTo(_, _)
SeqsUpTo(S, n) ==
  IF n = 0 THEN {<<>>}
  ELSE LET shorter == SeqsUpTo(S, n - 1) IN
         shorter \cup {Append(q, x) : q \in {r \in shorter : Len(r) = n - 1}, x \in S}

BaseRow ==
  [issue |-> <<"I">>, title |-> <<"A">>, comment |-> <<"c">>,
   name |-> <<"Y", SP, "T">>, org |-> <<"o">>, bio |-> EmptyStr,
   link |-> <<"#x">>, monogram |-> <<"Y">>, strip_color |-> <<"#111111">>,
   comment_bar_color |-> DefaultBar]

\* the record r without the field k
Without(r, k) == [f \in (DOMAIN r) \ {k} |-> r[f]]

\* rows of the same and of different articles: keys that differ only by
\* surrounding whitespace, by case, by title or by link
KeyRows ==
  {[BaseRow EXCEPT !.title = kl[1], !.link = kl[2], !.name = n] :
     kl \in {<< <<"A">>, <<"#x">> >>,
             << <<SP, "A">>, <<"#x", SP>> >>,
             << <<"B">>, <<"#x">> >>,
             << <<"a">>, <<"#x">> >>},
     n \in {<<"P">>, <<"Q">>}}

\* rows with and without a strip colour and a link
ColourRows ==
  LET with == {[BaseRow EXCEPT !.title = t, !.link = l, !.strip_color = s] :
                 t \in {<<"A">>, <<"B">>},
                 l \in {EmptyStr, <<SP>>},
                 s \in {EmptyStr, <<"#222222">>}}
  IN with \cup {Without(r, "strip_color") : r \in {w \in with : w.strip_color = EmptyStr}}

\* rows whose text carries HTML-significant characters and line breaks
Hostile == {<<"<", "b", ">">>, <<"&", "\"">>, <<"'", NL, "x">>}

HostileRows ==
  {[issue |-> v, title |-> v, comment |-> v, name |-> v, org |-> v, bio |-> v,
    link |-> <<"#x">>, monogram |-> <<"Y">>, strip_color |-> <<"#111111">>,
    comment_bar_color |-> DefaultBar] : v \in Hostile}
  \cup {[BaseRow EXCEPT !.link = v] : v \in Hostile}
  \cup {[BaseRow EXCEPT !.monogram = v] : v \in Hostile}
  \cup {[BaseRow EXCEPT !.strip_color = v, !.comment_bar_color = v] : v \in Hostile}

\* rows with empty, blank and missing names and monogram overrides
NameRows ==
  LET with == {[BaseRow EXCEPT !.name = n, !.monogram = m] :
                 n \in {EmptyStr, <<SP>>, <<FW>>, <<"Y", SP, "T">>},
                 m \in {EmptyStr, <<"M">>}}
  IN with \cup {Without(Without(r, "monogram"), "bio") :
                  r \in {w \in with : w.monogram = EmptyStr}}

\* rows of one article whose names are equal, differ by case, or differ only
\* in how they would read after escaping; one row has no name at all
CountNames ==
  {EmptyStr, <<"T">>, <<"t">>, <<"<">>, <<"&", "l", "t", ";">>, <<NL>>, BR}

CountRows ==
  {[BaseRow EXCEPT !.name = n] : n \in CountNames}
  \cup {Without(BaseRow, "name")}

\* rows of two articles with a comment bar colour, with an empty one and
\* without one
BarRows ==
  LET with == {[BaseRow EXCEPT !.title = t, !.comment_bar_color = b] :
                 t \in {<<"A">>, <<"B">>},
                 b \in {EmptyStr, <<"#333333">>}}
  IN with \cup {Without(r, "comment_bar_color") :
                  r \in {w \in with : w.comment_bar_color = EmptyStr}}

RowFamilies == {KeyRows, ColourRows, HostileRows, NameRows, CountRows, BarRows}

InitRender ==
  /\ \E F \in RowFamilies : cards_data \in SeqsUpTo(F, MaxRows)
  /\ use_grouping \in BOOLEAN
  /\ header = DefaultHeader
  /\ grouped = <<>>
  /\ cards_html_list = <<>>
  /\ full_html = NoDoc
  /\ raised = "none"
  /\ input_mode = "form"
  /\ uploaded = NoFile
  /\ session_state = <<>>
  /\ messages = <<>>
  /\ fn = NoArgs
  /\ ret = NotCalled

\* the script from the card list construction to render_email_full
Render ==
  /\ full_html = NoDoc
  /\ raised = "none"
  /\ \E out \in {RenderPass(cards_data, use_grouping, header)} :
       /\ grouped' = out.grouped
       /\ cards_html_list' = out.cards_html_list
       /\ full_html' = out.full_html
       /\ raised' = out.raised
  /\ UNCHANGED <<use_grouping, header, cards_data>>
  /\ UNCHANGED uiVars
  /\ UNCHANGED fnVars

NextRender == Render

SpecRender == InitRender /\ [][NextRender]_vars

\* the pass has run
Rendered == full_html # NoDoc \/ raised # "none"

(***************************************************************************)
(* Properties of the render pass                                           *)
(***************************************************************************)
\* the article a row belongs to: issue, title and link without surrounding
\* whitespace
ArticleKey(r) == <<strip(Get(r, "issue", EmptyStr)),
                   strip(Get(r, "title", EmptyStr)),
                   strip(Get(r, "link", EmptyStr))>>

GroupKey(g) == <<g.issue, g.title, g.link>>

\* the positions at which an article occurs for the first time
FirstPositions(rows) ==
  {i \in 1..Len(rows) :
     \A j \in 1..(i - 1) : ArticleKey(rows[j]) # ArticleKey(rows[i])}

\* the positions of the rows of article k
PositionsOf(rows, k) == {i \in 1..Len(rows) : ArticleKey(rows[i]) = k}

\* the n-th smallest element of a set of numbers
NthSmallest(S, n) == CHOOSE i \in S : Cardinality({j \in S : j < i}) = n - 1

RECURSIVE SumEntries(_)
SumEntries(groups) ==
  IF groups = <<>> THEN 0
  ELSE Len(Head(groups).entries) + SumEntries(Tail(groups))

\* the row has no strip colour: the key is missing or the value is empty
NoStrip(r) == ~Truthy(Get(r, "strip_color", None))

\* the row has no link: missing, empty or only whitespace
NoLink(r) == strip(Get(r, "link", EmptyStr)) = EmptyStr

\* C1 (as claimed): the render pass never raises and always ends with a
\* document, whatever strings the rows hold
C1_RenderIsTotal ==
  Rendered => (raised = "none" /\ full_html # NoDoc)

\* C2: grouping returns one group per distinct trimmed (issue, title, link)
\* key, in the order in which the keys first occur in the input
C2_GroupsInFirstOccurrenceOrder ==
  (Rendered /\ use_grouping) =>
    LET F == FirstPositions(cards_data) IN
      /\ Len(grouped) = Cardinality(F)
      /\ \A a \in 1..Len(grouped) :
           GroupKey(grouped[a]) = ArticleKey(cards_data[NthSmallest(F, a)])

\* rows of one article, written differently, around a row of another article
C2_Witness ==
  /\ Rendered /\ use_grouping
  /\ Len(cards_data) = 3
  /\ ArticleKey(cards_data[1]) = ArticleKey(cards_data[3])
  /\ cards_data[1].title # cards_data[3].title
  /\ ArticleKey(cards_data[1]) # ArticleKey(cards_data[2])
  /\ Len(grouped) = 2
  /\ GroupKey(grouped[2]) = ArticleKey(cards_data[2])

\* C3: grouping is an exact partition: the entries of a group are exactly the
\* rows whose trimmed key is the group's, in input order, no two groups share
\* a key, and the entries of all groups together are as many as the rows
C3_GroupsPartitionRows ==
  (Rendered /\ use_grouping) =>
    /\ \A a \in 1..Len(grouped) :
         LET P == PositionsOf(cards_data, GroupKey(grouped[a])) IN
           /\ Len(grouped[a].entries) = Cardinality(P)
           /\ \A n \in 1..Cardinality(P) :
                grouped[a].entries[n] = EntryOf(cards_data[NthSmallest(P, n)])
    /\ \A a, b \in 1..Len(grouped) :
         GroupKey(grouped[a]) = GroupKey(grouped[b]) => a = b
    /\ SumEntries(grouped) = Len(cards_data)

\* three rows of one article, not all written alike, end in one group of three
C3_Witness ==
  /\ Rendered /\ use_grouping
  /\ Len(cards_data) = 3
  /\ cards_data[1].title # cards_data[2].title
  /\ cards_data[1].name # cards_data[3].name
  /\ Len(grouped) = 1
  /\ Len(grouped[1].entries) = 3

\* C4: the strip colour of a group is the colour of the first row of its
\* article if that row has one and #c7d2fe otherwise; later rows change nothing
C4_StripColourFromFirstRow ==
  (Rendered /\ use_grouping) =>
    \A a \in 1..Len(grouped) :
      LET first == cards_data[NthSmallest(
                     PositionsOf(cards_data, GroupKey(grouped[a])), 1)]
      IN grouped[a].strip_color =
           IF NoStrip(first) THEN <<"#c7d2fe">> ELSE first.strip_color

\* the first row of an article has no colour and a later row of it has one
C4_Witness ==
  /\ Rendered /\ use_grouping
  /\ Len(cards_data) >= 2
  /\ ArticleKey(cards_data[1]) = ArticleKey(cards_data[2])
  /\ NoStrip(cards_data[1])
  /\ ~NoStrip(cards_data[2])
  /\ grouped[1].strip_color = <<"#c7d2fe">>

\* the entities html.escape produces
Entities == {EscapeChar(c) : c \in {"&", "<", ">", "\"", "'"}}

\* no raw <, >, &, " or ' in s: every < opens a line-break marker and every &
\* opens an entity
RECURSIVE SafeHtml(_)
SafeHtml(s) ==
  IF s = EmptyStr THEN TRUE
  ELSE IF Head(s) = "<"
       THEN /\ Len(s) >= Len(BR)
            /\ SubSeq(s, 1, Len(BR)) = BR
            /\ SafeHtml(SubSeq(s, Len(BR) + 1, Len(s)))
  ELSE IF Head(s) = "&"
       THEN \E e \in Entities :
              /\ Len(s) >= Len(e)
              /\ SubSeq(s, 1, Len(e)) = e
              /\ SafeHtml(SubSeq(s, Len(e) + 1, Len(s)))
  ELSE Head(s) \notin {">", "\"", "'"} /\ SafeHtml(Tail(s))

\* the values a card fragment embeds
SlotsOf(card) ==
  IF card.kind = "single"
  THEN {card.strip_color, card.issue_label, card.article_title,
        card.comment_bar_color, card.comment_text, card.mono,
        card.commenter_name, card.commenter_org, card.bio_html, card.link_url}
  ELSE {card.strip_color, card.issue_label, card.article_title, card.link_url}
       \cup {card.chips[i].bg : i \in 1..Len(card.chips)}
       \cup {card.chips[i].m : i \in 1..Len(card.chips)}
       \cup UNION {{card.blocks[i].bar, card.blocks[i].comment,
                    card.blocks[i].mono, card.blocks[i].name,
                    card.blocks[i].org, card.blocks[i].bio} :
                   i \in 1..Len(card.blocks)}

\* C5 (as claimed): every value embedded into a card, the monogram, the link
\* target and the colours included, is sanitized, so no fragment holds a raw
\* HTML-significant character
C5_EverySlotSanitized ==
  (Rendered /\ raised = "none") =>
    \A i \in 1..Len(cards_html_list) :
      \A v \in SlotsOf(cards_html_list[i]) : SafeHtml(v)

\* the card that shows row i
CardOfRow(i) ==
  IF use_grouping
  THEN CHOOSE a \in 1..Len(grouped) :
         GroupKey(grouped[a]) = ArticleKey(cards_data[i])
  ELSE i

\* C7 (as claimed): a row at 0-indexed position p whose link is missing, empty
\* or blank is rendered with the target #article(p+1), grouped or not
C7_MissingLinkIsRowAnchor ==
  (Rendered /\ raised = "none") =>
    \A i \in 1..Len(cards_data) :
      NoLink(cards_data[i]) =>
        cards_html_list[CardOfRow(i)].link_url = <<"#article", ToString(i)>>

\* the two-colour cycle by 0-indexed position
CycleColour(p) == IF p % 2 = 0 THEN <<"#c7d2fe">> ELSE <<"#a5b4fc">>

\* the first row of the article of group a
FirstRowOf(a) ==
  cards_data[NthSmallest(PositionsOf(cards_data, GroupKey(grouped[a])), 1)]

\* C8 (as claimed): a row without strip colour is rendered with the cycle
\* colour of its position, in single cards and in grouped cards
C8_MissingStripFollowsCycle ==
  (Rendered /\ raised = "none") =>
    IF use_grouping
    THEN \A a \in 1..Len(grouped) :
           NoStrip(FirstRowOf(a)) =>
             cards_html_list[a].strip_color = CycleColour(a - 1)
    ELSE \A i \in 1..Len(cards_data) :
           NoStrip(cards_data[i]) =>
             cards_html_list[i].strip_color = CycleColour(i - 1)

\* C8 (amended): a row without strip colour is rendered with the cycle colour
\* of its position in a single card; a grouped card whose first row has no
\* strip colour is rendered with #c7d2fe at every position
C8_MissingStripSingleCycleGroupedFirst ==
  (Rendered /\ raised = "none") =>
    IF use_grouping
    THEN \A a \in 1..Len(grouped) :
           NoStrip(FirstRowOf(a)) =>
             cards_html_list[a].strip_color = <<"#c7d2fe">>
    ELSE \A i \in 1..Len(cards_data) :
           NoStrip(cards_data[i]) =>
             cards_html_list[i].strip_color = CycleColour(i - 1)

\* a grouped card at an odd position whose first row has no strip colour
C8_Witness ==
  /\ Rendered /\ raised = "none" /\ use_grouping
  /\ Len(grouped) >= 2
  /\ NoStrip(FirstRowOf(2))
  /\ cards_html_list[2].strip_color = <<"#c7d2fe">>

\* the names of the rows of group a as the rows give them, a row without
\* name counting as the empty name
RowNamesOf(a) ==
  {Get(cards_data[i], "name", EmptyStr) :
     i \in PositionsOf(cards_data, GroupKey(grouped[a]))}

\* C11: the badge of a grouped card shows the number of entries of the group
\* and the number of distinct names among them, names compared exactly as
\* the rows give them (escaping neither merges nor splits names)
C11_BadgeCountsEntriesAndNames ==
  (Rendered /\ raised = "none" /\ use_grouping) =>
    \A a \in 1..Len(grouped) :
      /\ cards_html_list[a].n_entries =
           Cardinality(PositionsOf(cards_data, GroupKey(grouped[a])))
      /\ cards_html_list[a].n_names = Cardinality(RowNamesOf(a))

\* three entries: "<" twice and the text that "<" is escaped to
C11_Witness ==
  /\ Rendered /\ raised = "none" /\ use_grouping
  /\ Len(cards_data) = 3
  /\ Get(cards_data[1], "name", EmptyStr) = <<"<">>
  /\ Get(cards_data[2], "name", EmptyStr) = <<"&", "l", "t", ";">>
  /\ Get(cards_data[3], "name", EmptyStr) = <<"<">>
  /\ cards_html_list[1].n_entries = 3
  /\ cards_html_list[1].n_names = 2

\* the row has no comment bar colour: the key is missing or the value empty
NoBar(r) == ~Truthy(Get(r, "comment_bar_color", None))

\* the background colours a card is rendered with, besides the strip
BackgroundsOf(card) ==
  IF card.kind = "single" THEN {card.comment_bar_color}
  ELSE {card.blocks[n].bar : n \in 1..Len(card.blocks)}
       \cup {card.chips[n].bg : n \in 1..Len(card.chips)}

\* C13 (as claimed): a row without comment bar colour (key missing or value
\* empty) is rendered with #2563eb, as a single card and as an entry of a
\* grouped card, and no card carries an empty background colour
C13_MissingBarIsBlue ==
  (Rendered /\ raised = "none") =>
    /\ IF use_grouping
       THEN \A a \in 1..Len(grouped) :
              LET P == PositionsOf(cards_data, GroupKey(grouped[a])) IN
                \A n \in 1..Cardinality(P) :
                  NoBar(cards_data[NthSmallest(P, n)]) =>
                    cards_html_list[a].blocks[n].bar = DefaultBar
       ELSE \A i \in 1..Len(cards_data) :
              NoBar(cards_data[i]) =>
                cards_html_list[i].comment_bar_color = DefaultBar
    /\ \A i \in 1..Len(cards_html_list) :
         EmptyStr \notin BackgroundsOf(cards_html_list[i])

\* the part of C13 that is about the accent bar of a grouped card's entries
GroupedMissingBarIsBlue ==
  (Rendered /\ raised = "none" /\ use_grouping) =>
    \A a \in 1..Len(grouped) :
      LET P == PositionsOf(cards_data, GroupKey(grouped[a])) IN
        \A n \in 1..Cardinality(P) :
          NoBar(cards_data[NthSmallest(P, n)]) =>
            cards_html_list[a].blocks[n].bar = DefaultBar

(***************************************************************************)
(* SpecMono: the monogram of any name and override                         *)
(***************************************************************************)
MaxNameLen == 3
MaxMonoLen == 2

NameChars == {"Y", "T", SP, FW, TAB}
MonoChars == {"M", "N", SP}

Names == SeqsUpTo(NameChars, MaxNameLen)
Overrides == SeqsUpTo(MonoChars, MaxMonoLen) \cup {None}

renderVars == <<use_grouping, header, cards_data, grouped, cards_html_list,
                full_html, raised>>

InitMono ==
  /\ fn \in [full_name : Names, monogram : Overrides]
  /\ ret = NotCalled
  /\ cards_data = <<>>
  /\ use_grouping = TRUE
  /\ header = DefaultHeader
  /\ grouped = <<>>
  /\ cards_html_list = <<>>
  /\ full_html = NoDoc
  /\ raised = "none"
  /\ input_mode = "form"
  /\ uploaded = NoFile
  /\ session_state = <<>>
  /\ messages = <<>>

\* the result of a call, with the monogram the fragment displays
Returned(op, r, mono) ==
  [op |-> op, exc |-> r.exc, val |-> IF r.exc = "none" THEN mono ELSE EmptyStr]

\* auto_monogram(full_name)
CallAutoMonogram ==
  /\ ret = NotCalled
  /\ LET r == auto_monogram(fn.full_name) IN
       ret' = Returned("auto_monogram", r, r.val)
  /\ UNCHANGED <<fn>>
  /\ UNCHANGED renderVars
  /\ UNCHANGED uiVars

\* render_card on a row with this name and override
CallRenderCard ==
  /\ ret = NotCalled
  /\ LET r == render_card(0, BaseRow.issue, BaseRow.title, BaseRow.comment,
                          fn.full_name, BaseRow.org, BaseRow.link,
                          BaseRow.strip_color, fn.monogram, DefaultBar,
                          BaseRow.bio)
     IN ret' = Returned("render_card", r, r.val.mono)
  /\ UNCHANGED <<fn>>
  /\ UNCHANGED renderVars
  /\ UNCHANGED uiVars

\* render_card_grouped on the one entry with this name and override
CallRenderCardGrouped ==
  /\ ret = NotCalled
  /\ LET e == [EntryOf(BaseRow) EXCEPT !.name = fn.full_name,
                                       !.monogram = fn.monogram]
         r == render_card_grouped(0, BaseRow.issue, BaseRow.title,
                                  BaseRow.link, BaseRow.strip_color, <<e>>)
     IN ret' = Returned("render_card_grouped", r, r.val.blocks[1].mono)
  /\ UNCHANGED <<fn>>
  /\ UNCHANGED renderVars
  /\ UNCHANGED uiVars

NextMono == CallAutoMonogram \/ CallRenderCard \/ CallRenderCardGrouped

SpecMono == InitMono /\ [][NextMono]_vars

\* the name holds an ASCII or a full-width space
HasSpace(n) == \E i \in 1..Len(n) : n[i] \in {SP, FW}

\* the position of the first space of the name
FirstSpace(n) ==
  CHOOSE i \in 1..Len(n) : n[i] \in {SP, FW} /\ \A j \in 1..(i - 1) : n[j] \notin {SP, FW}

\* the name holds nothing but whitespace
Blank(n) == \A i \in 1..Len(n) : n[i] \in {SP, FW, TAB, NL}

\* the first character of the name that is not whitespace
FirstVisible(n) ==
  n[CHOOSE i \in 1..Len(n) :
      n[i] \notin {SP, FW, TAB, NL} /\ \A j \in 1..(i - 1) : n[j] \in {SP, FW, TAB, NL}]

\* C9 (as claimed): for a name that holds a space, auto_monogram returns the
\* first character of what precedes the first space; stated for the names
\* that hold a visible character, the names of whitespace only being the
\* subject of C1
C9_FirstCharBeforeFirstSpace ==
  (ret.op = "auto_monogram" /\ HasSpace(fn.full_name)
     /\ ~Blank(fn.full_name)) =>
    /\ ret.exc = "none"
    /\ FirstSpace(fn.full_name) > 1
    /\ ret.val = <<fn.full_name[1]>>

\* C9 (amended): for a name that holds a space, auto_monogram returns the
\* first character of the name without its surrounding whitespace, which is
\* the first character of what precedes the first space when the name does
\* not begin with whitespace; a name of whitespace only raises IndexError
C9_FirstCharOfTrimmedName ==
  (ret.op = "auto_monogram" /\ HasSpace(fn.full_name)) =>
    IF Blank(fn.full_name)
    THEN ret.exc = "IndexError"
    ELSE /\ ret.exc = "none"
         /\ ret.val = <<FirstVisible(fn.full_name)>>
         /\ fn.full_name[1] \notin {SP, FW, TAB, NL} =>
              /\ FirstSpace(fn.full_name) > 1
              /\ ret.val = <<SubSeq(fn.full_name, 1, FirstSpace(fn.full_name) - 1)[1]>>

\* a name that begins with a full-width space and holds a second space
C9_Witness ==
  /\ ret.op = "auto_monogram"
  /\ fn.full_name = <<FW, "Y", SP>>
  /\ ret.val = <<"Y">>

\* the override is absent, empty or whitespace only
NoOverride(m) == m = None \/ Blank(m)

\* C10 (as claimed): in both renderers an override that does not begin with
\* whitespace is displayed by its first character; without an override
\* (absent, empty or blank) a name with a visible character gives the
\* character derived from the name; the placeholder appears only for an
\* empty name
C10_MonogramChain ==
  (ret.op \in {"render_card", "render_card_grouped"}
     /\ (fn.full_name = EmptyStr \/ ~Blank(fn.full_name))) =>
    /\ ret.exc = "none"
    /\ (~NoOverride(fn.monogram) /\ fn.monogram[1] \notin {SP, FW, TAB, NL}) =>
         ret.val = <<fn.monogram[1]>>
    /\ (NoOverride(fn.monogram) /\ fn.full_name # EmptyStr) =>
         ret.val = <<FirstVisible(fn.full_name)>>
    /\ ret.val = Placeholder => fn.full_name = EmptyStr

(***************************************************************************)
(* SpecEscape: escape_nl2br on any text                                    *)
(***************************************************************************)
MaxTextLen == 4

\* the HTML-significant characters, the newline and the letters of a marker
TextChars == {"<", ">", "&", "\"", "'", NL, "b", "r"}

Texts == SeqsUpTo(TextChars, MaxTextLen) \cup {None}

InitEscape ==
  /\ fn \in [text : Texts]
  /\ ret = NotCalled
  /\ cards_data = <<>>
  /\ use_grouping = TRUE
  /\ header = DefaultHeader
  /\ grouped = <<>>
  /\ cards_html_list = <<>>
  /\ full_html = NoDoc
  /\ raised = "none"
  /\ input_mode = "form"
  /\ uploaded = NoFile
  /\ session_state = <<>>
  /\ messages = <<>>

\* escape_nl2br(text)
CallEscapeNl2br ==
  /\ ret = NotCalled
  /\ ret' = [op |-> "escape_nl2br", exc |-> "none", val |-> escape_nl2br(fn.text)]
  /\ UNCHANGED <<fn>>
  /\ UNCHANGED renderVars
  /\ UNCHANGED uiVars

NextEscape == CallEscapeNl2br

SpecEscape == InitEscape /\ [][NextEscape]_vars

\* the number of newline characters of a text
Newlines(t) == Cardinality({i \in 1..Len(t) : t[i] = NL})

\* the number of line-break markers of a string
Markers(s) ==
  Cardinality({i \in 1..Len(s) :
                 i + Len(BR) - 1 <= Len(s) /\ SubSeq(s, i, i + Len(BR) - 1) = BR})

\* the text a sanitized string stands for: markers read as newlines and
\* entities as the characters they name
RECURSIVE Unescaped(_)
Unescaped(s) ==
  IF s = EmptyStr THEN EmptyStr
  ELSE IF Len(s) >= Len(BR) /\ SubSeq(s, 1, Len(BR)) = BR
       THEN <<NL>> \o Unescaped(SubSeq(s, Len(BR) + 1, Len(s)))
  ELSE IF \E c \in {"&", "<", ">", "\"", "'"} :
            Len(s) >= Len(EscapeChar(c)) /\ SubSeq(s, 1, Len(EscapeChar(c))) = EscapeChar(c)
       THEN LET c == CHOOSE c \in {"&", "<", ">", "\"", "'"} :
                       /\ Len(s) >= Len(EscapeChar(c))
                       /\ SubSeq(s, 1, Len(EscapeChar(c))) = EscapeChar(c)
            IN <<c>> \o Unescaped(SubSeq(s, Len(EscapeChar(c)) + 1, Len(s)))
  ELSE <<Head(s)>> \o Unescaped(Tail(s))

\* C14: escape_nl2br never raises; None gives the empty string; for a text
\* the result holds one <br> per newline of the text, no raw <, >, &, " or '
\* besides the markers, and stands for the text it was made from
C14_OneMarkerPerNewlineAndEscaped ==
  ret.op = "escape_nl2br" =>
    /\ ret.exc = "none"
    /\ IF fn.text = None THEN ret.val = EmptyStr
       ELSE /\ Markers(ret.val) = Newlines(fn.text)
            /\ SafeHtml(ret.val)
            /\ Unescaped(ret.val) = fn.text

\* a text with two newlines between a literal < and the letters of a marker
C14_Witness ==
  /\ ret.op = "escape_nl2br"
  /\ fn.text = <<"<", NL, NL, "b">>
  /\ ret.val = <<"&", "l", "t", ";">> \o BR \o BR \o <<"b">>

(***************************************************************************)
(* SpecAssemble: render_email_full, called directly and by the script      *)
(***************************************************************************)
MaxFragments == 3

\* card fragments, told apart by their text
Fragments ==
  {[kind |-> "card", text |-> t] : t \in {<<"f1">>, <<"f2">>, <<"f3">>, <<"f4">>}}

InitAssemble ==
  /\ cards_html_list \in SeqsUpTo(Fragments, MaxFragments)
  /\ header = DefaultHeader
  /\ full_html = NoDoc
  /\ raised = "none"
  /\ cards_data = <<>>
  /\ use_grouping = TRUE
  /\ grouped = <<>>
  /\ input_mode = "form"
  /\ uploaded = NoFile
  /\ session_state = <<>>
  /\ messages = <<>>
  /\ fn = NoArgs
  /\ ret = NotCalled

\* render_email_full(..., cards = cards_html_list)
CallRenderEmailFull ==
  /\ full_html = NoDoc
  /\ full_html' = render_email_full(header.title_text, header.badge_text,
                                    header.header_title, header.delivery_text,
                                    header.description_text, cards_html_list)
  /\ ret' = [op |-> "render_email_full", exc |-> "none", val |-> EmptyStr]
  /\ UNCHANGED <<fn, use_grouping, header, cards_data, grouped,
                 cards_html_list, raised>>
  /\ UNCHANGED uiVars

\* the call of the script:
\* cards = cards_html_list if cards_html_list else ["<!-- No cards -->"]
AssembleInScript ==
  /\ full_html = NoDoc
  /\ full_html' = render_email_full(header.title_text, header.badge_text,
                                    header.header_title, header.delivery_text,
                                    header.description_text,
                                    IF cards_html_list # <<>>
                                    THEN cards_html_list ELSE <<NoCards>>)
  /\ ret' = [op |-> "script", exc |-> "none", val |-> EmptyStr]
  /\ UNCHANGED <<fn, use_grouping, header, cards_data, grouped,
                 cards_html_list, raised>>
  /\ UNCHANGED uiVars

NextAssemble == CallRenderEmailFull \/ AssembleInScript

SpecAssemble == InitAssemble /\ [][NextAssemble]_vars

\* the body holds the fragments in their order with one spacer between two
\* neighbours, N - 1 spacers in all
InOrderWithSpacers(body, cards) ==
  /\ Len(body) = 2 * Len(cards) - 1
  /\ \A i \in 1..Len(cards) : body[2 * i - 1] = cards[i]
  /\ \A i \in 1..(Len(cards) - 1) : body[2 * i] = Spacer

\* C15 (as claimed): render_email_full given no fragment produces a body that
\* holds the placeholder fragment, and given N >= 1 fragments emits them in
\* order with N - 1 spacers; so does the script
C15_AssemblerSubstitutesPlaceholder ==
  full_html # NoDoc =>
    IF cards_html_list = <<>>
    THEN full_html.body = <<NoCards>>
    ELSE InOrderWithSpacers(full_html.body, cards_html_list)

\* C15 (amended): the script passes the placeholder fragment in place of an
\* empty card list, so a document the script builds from zero cards holds the
\* placeholder; render_email_full itself joins what it is given, N >= 1
\* fragments in order with N - 1 spacers and no fragment to an empty body
C15_ScriptSubstitutesPlaceholder ==
  full_html # NoDoc =>
    IF cards_html_list # <<>>
    THEN InOrderWithSpacers(full_html.body, cards_html_list)
    ELSE IF ret.op = "script"
         THEN full_html.body = <<NoCards>>
         ELSE full_html.body = <<>>

\* the script has built the document of an empty card list
C15_Witness ==
  /\ ret.op = "script"
  /\ cards_html_list = <<>>
  /\ full_html # NoDoc
  /\ full_html.body = <<NoCards>>

(***************************************************************************)
(* SpecGrouped: render_card_grouped on one group of any number of entries  *)
(***************************************************************************)
MaxEntries == 6

\* entries with a comment bar colour, with an empty one and without one; the
\* comments tell the entries apart
ChipEntries ==
  {[comment |-> <<"c1">>, name |-> <<"P">>, org |-> <<"o">>, bio |-> EmptyStr,
    monogram |-> <<"Y">>, comment_bar_color |-> <<"#333333">>],
   [comment |-> <<"c2">>, name |-> <<"Q">>, org |-> <<"o">>, bio |-> EmptyStr,
    monogram |-> <<"Z">>, comment_bar_color |-> <<"#444444">>],
   [comment |-> <<"c1">>, name |-> <<"P">>, org |-> <<"o">>, bio |-> EmptyStr,
    monogram |-> <<"Y">>, comment_bar_color |-> EmptyStr],
   [comment |-> <<"c2">>, name |-> <<"Q">>, org |-> <<"o">>, bio |-> EmptyStr,
    monogram |-> <<"Z">>]}

InitGrouped ==
  /\ \E es \in SeqsUpTo(ChipEntries, MaxEntries) :
       grouped = <<[issue |-> <<"I">>, title |-> <<"A">>, link |-> <<"#x">>,
                    strip_color |-> <<"#111111">>, entries |-> es]>>
  /\ use_grouping = TRUE
  /\ cards_data = <<>>
  /\ header = DefaultHeader
  /\ cards_html_list = <<>>
  /\ full_html = NoDoc
  /\ raised = "none"
  /\ input_mode = "form"
  /\ uploaded = NoFile
  /\ session_state = <<>>
  /\ messages = <<>>
  /\ fn = NoArgs
  /\ ret = NotCalled

\* the loop over grouped that appends render_card_grouped(...) of every group
CallGrouped ==
  /\ cards_html_list = <<>>
  /\ raised = "none"
  /\ \E rs \in {[i \in 1..Len(grouped) |-> RenderGroupedAt(grouped, i)]} :
       IF \E i \in 1..Len(rs) : rs[i].exc # "none"
       THEN /\ raised' = "IndexError"
            /\ UNCHANGED cards_html_list
       ELSE /\ cards_html_list' = [i \in 1..Len(rs) |-> rs[i].val]
            /\ UNCHANGED raised
  /\ UNCHANGED <<use_grouping, header, cards_data, grouped, full_html>>
  /\ UNCHANGED uiVars
  /\ UNCHANGED fnVars

NextGrouped == CallGrouped

SpecGrouped == InitGrouped /\ [][NextGrouped]_vars

\* the card of the group has been rendered
GroupRendered == cards_html_list # <<>>

\* the chips, the overflow indicator and the sub-blocks of the card are as
\* many as claimed and follow the entries in their order
ChipsAndBlocksFollowEntries ==
  GroupRendered =>
    LET es   == grouped[1].entries
        card == cards_html_list[1]
        N    == Len(es)
    IN /\ Len(card.chips) = IF N < 5 THEN N ELSE 5
       /\ \A i \in 1..Len(card.chips) : card.chips[i].m = es[i].monogram
       /\ (card.more_badge # EmptyStr) <=> (N > 5)
       /\ N > 5 => card.more_badge = <<"+", ToString(N - 5)>>
       /\ Len(card.blocks) = N
       /\ \A i \in 1..N :
            /\ card.blocks[i].comment = es[i].comment
            /\ card.blocks[i].name = es[i].name
            /\ card.blocks[i].mono = es[i].monogram

\* C12 (as claimed): a grouped card shows min(N, 5) chips in entry order, an
\* overflow indicator +(N-5) exactly when N > 5, one sub-block per entry in
\* order, and every chip has the colour of the accent bar of its entry's
\* sub-block, also for an entry whose colour is empty or missing
C12_ChipsOverflowAndBlocks ==
  /\ ChipsAndBlocksFollowEntries
  /\ GroupRendered =>
       \A i \in 1..Len(cards_html_list[1].chips) :
         cards_html_list[1].chips[i].bg = cards_html_list[1].blocks[i].bar

(***************************************************************************)
(* Spec: the application, one script run per user interaction              *)
(***************************************************************************)
\* num_cards, the number input, held at its smallest value
NumCards == 1
\* the commentators offered by the select box in the model, besides the
\* manual entry
NumChoices == 1
MaxCsvRows == 2

FreshForm == [i \in 1..NumCards |-> FreshCard(i - 1)]

\* the rest of a run whose upload branch gave cp
RunAfterCsv(cp, grouping, hdr) ==
  [session_state |-> <<>>, cards_data |-> cp.cards,
   messages |-> cp.messages, out |-> RenderPass(cp.cards, grouping, hdr)]

\* the rest of a run whose form branch gave fl; an exception in the form
\* ends the script before the render pass
RunAfterForm(fl, grouping, hdr) ==
  [session_state |-> fl.form, cards_data |-> fl.cards, messages |-> <<>>,
   out |-> IF fl.exc # "none"
           THEN [grouped |-> <<>>, cards_html_list |-> <<>>,
                 full_html |-> NoDoc, raised |-> fl.exc]
           ELSE RenderPass(fl.cards, grouping, hdr)]

\* one script run: the card settings of the chosen input mode, then the
\* render pass; pressed is the card whose overwrite button started the run,
\* 0 if none
Rerun(mode, upl, ss, grouping, hdr, pressed) ==
  IF mode = "csv"
  THEN RunAfterCsv(CsvPass(upl), grouping, hdr)
  ELSE RunAfterForm(FormLoop(IF ss = <<>> THEN FreshForm ELSE ss, 1, pressed,
                             DefaultBar, <<>>), grouping, hdr)

\* the state a script run leaves
Shows(mode, upl, grouping, r) ==
  /\ input_mode' = mode
  /\ uploaded' = upl
  /\ use_grouping' = grouping
  /\ session_state' = r.session_state
  /\ cards_data' = r.cards_data
  /\ messages' = r.messages
  /\ grouped' = r.out.grouped
  /\ cards_html_list' = r.out.cards_html_list
  /\ full_html' = r.out.full_html
  /\ raised' = r.out.raised
  /\ UNCHANGED <<header, fn, ret>>

\* the tables a user may upload
PlainCells ==
  {[issue |-> <<"I">>, title |-> t, comment |-> <<"c">>, name |-> n,
    org |-> <<"o">>, link |-> <<"#x">>] :
     t \in {<<"A">>, <<"B">>}, n \in {<<"P">>, NaN}}

FullCells ==
  {[issue |-> <<"I">>, title |-> <<"A">>, comment |-> <<"c">>, name |-> n,
    org |-> NaN, link |-> <<"#x">>, monogram |-> NaN, strip_color |-> NaN,
    commentator |-> k, bio |-> NaN] :
     n \in {<<"P">>, <<SP>>}, k \in {<<"2">>, <<"x">>}}

Files ==
  {[present |-> TRUE, readable |-> FALSE, columns |-> {}, rows |-> <<>>]}
  \cup {[present |-> TRUE, readable |-> TRUE, columns |-> required_cols,
         rows |-> q] : q \in SeqsUpTo(PlainCells, MaxCsvRows)}
  \cup {[present |-> TRUE, readable |-> TRUE,
         columns |-> required_cols \cup {"monogram", "strip_color",
                                         "commentator", "bio"},
         rows |-> q] : q \in SeqsUpTo(FullCells, MaxCsvRows)}
  \cup {[present |-> TRUE, readable |-> TRUE,
         columns |-> required_cols \ {k},
         rows |-> <<Without(c, k)>>] :
          k \in required_cols, c \in {x \in PlainCells : x.name # NaN}}
  \cup {[present |-> TRUE, readable |-> TRUE,
         columns |-> required_cols \ {k},
         rows |-> <<Without(c, k), Without(c, k)>>] :
          k \in {"name"}, c \in {x \in PlainCells : x.name # NaN}}

\* the values a user may type into the name and the monogram of a card
TypedValues ==
  [name |-> {EmptyStr, <<SP>>, <<"X", SP, "Z">>},
   mono |-> {EmptyStr, <<SP>>, <<"M", "N">>}]

Init ==
  /\ header = DefaultHeader
  /\ fn = NoArgs
  /\ ret = NotCalled
  /\ \E r \in {Rerun("form", NoFile, <<>>, TRUE, DefaultHeader, 0)} :
       /\ input_mode = "form"
       /\ uploaded = NoFile
       /\ use_grouping = TRUE
       /\ session_state = r.session_state
       /\ cards_data = r.cards_data
       /\ messages = r.messages
       /\ grouped = r.out.grouped
       /\ cards_html_list = r.out.cards_html_list
       /\ full_html = r.out.full_html
       /\ raised = r.out.raised

\* the sidebar radio; the widgets of the other mode are no longer shown and
\* lose their values
SetInputMode ==
  \E m \in {"form", "csv"} \ {input_mode} :
    \E r \in {Rerun(m, NoFile, <<>>, use_grouping, header, 0)} :
      Shows(m, NoFile, use_grouping, r)

\* the user uploads a file, or removes the uploaded one
Upload ==
  /\ input_mode = "csv"
  /\ \E f \in (Files \cup {NoFile}) \ {uploaded} :
       \E r \in {Rerun("csv", f, session_state, use_grouping, header, 0)} :
         Shows("csv", f, use_grouping, r)

\* the grouping checkbox, shown when the script reached it
ToggleGrouping ==
  /\ raised = "none"
  /\ \E r \in {Rerun(input_mode, uploaded, session_state, ~use_grouping,
                       header, 0)} :
       Shows(input_mode, uploaded, ~use_grouping, r)

\* the cards whose widgets the last run drew: the loop draws the widgets of
\* a card before it computes the monogram of the card, and a run that raises
\* there draws no later card
Displayed ==
  {i \in 1..Len(session_state) : raised = "none" \/ i <= Len(cards_data) + 1}

\* the user types into the name or the monogram input of card i
EditField ==
  /\ input_mode = "form"
  /\ \E i \in Displayed, k \in {"name", "mono"} :
       \E v \in TypedValues[k] \ {session_state[i][k]} :
         \E r \in {Rerun("form", uploaded,
                           [session_state EXCEPT ![i][k] = v],
                           use_grouping, header, 0)} :
           Shows("form", uploaded, use_grouping, r)

\* the user picks a commentator, or the manual entry, for card i
SelectCommentator ==
  /\ input_mode = "form"
  /\ \E i \in Displayed :
       \E j \in (0..NumChoices) \ {session_state[i].select} :
         \E r \in {Rerun("form", uploaded,
                           [session_state EXCEPT ![i].select = j],
                           use_grouping, header, 0)} :
           Shows("form", uploaded, use_grouping, r)

\* the user presses the overwrite button of card i
PressApply ==
  /\ input_mode = "form"
  /\ \E i \in Displayed :
       \E r \in {Rerun("form", uploaded, session_state, use_grouping,
                         header, i)} :
         Shows("form", uploaded, use_grouping, r)

Next ==
  \/ SetInputMode
  \/ Upload
  \/ ToggleGrouping
  \/ EditField
  \/ SelectCommentator
  \/ PressApply

Spec == Init /\ [][Next]_vars

\* the pass found an uploaded table it could not use
UploadFailed ==
  /\ input_mode = "csv"
  /\ uploaded.present
  /\ (~uploaded.readable \/ ~(required_cols \subseteq uploaded.columns))

ErrorShown == \E i \in 1..Len(messages) : messages[i].level = "error"

\* the body of a document holds at least one card
HasCards(doc) ==
  doc # NoDoc /\ \E i \in 1..Len(doc.body) : doc.body[i].kind \in {"single", "grouped"}

\* C6 (as claimed): a pass that fails on the uploaded table shows an error
\* and leaves the document of the pass before it as it was
C6_FailedUploadKeepsDocument ==
  [][UploadFailed' => (ErrorShown' /\ full_html' = full_html)]_vars

\* C6 (amended): a pass that fails on the uploaded table shows an error,
\* collects no card and still ends with a document, the one built from the
\* empty card list, which takes the place of the document of the pass before
C6_FailedUploadShowsEmptyDocument ==
  UploadFailed =>
    /\ ErrorShown
    /\ raised = "none"
    /\ cards_data = <<>>
    /\ cards_html_list = <<>>
    /\ full_html # NoDoc
    /\ full_html.body = <<NoCards>>

\* a table without the link column was uploaded and the pass ended with the
\* placeholder document
C6_Witness ==
  /\ UploadFailed
  /\ uploaded.readable
  /\ "link" \notin uploaded.columns
  /\ Len(uploaded.rows) = 1
  /\ ErrorShown
  /\ full_html.body = <<NoCards>>

\* C16: an uploaded table that lacks a required column, or that cannot be
\* read, gets an error message and gives no card, not even from some of its
\* rows, and the pass still ends with a document; no pass over an upload ends
\* with an exception
C16_BadUploadReportedAndContained ==
  /\ input_mode = "csv" => (raised = "none" /\ full_html # NoDoc)
  /\ UploadFailed =>
       /\ ErrorShown
       /\ cards_data = <<>>
       /\ cards_html_list = <<>>
       /\ ~HasCards(full_html)
  /\ (input_mode = "csv" /\ uploaded.present /\ ~UploadFailed) =>
       /\ ~ErrorShown
       /\ Len(cards_data) = Len(uploaded.rows)

\* a table of two rows without the name column was uploaded
C16_Witness ==
  /\ UploadFailed
  /\ uploaded.readable
  /\ uploaded.columns = required_cols \ {"name"}
  /\ Len(uploaded.rows) = 2
  /\ ErrorShown
  /\ cards_data = <<>>
  /\ full_html # NoDoc

\* the four fields of commentator j's profile as a card takes them over
ProfileFields(j) ==
  LET cmt == ALL_COMMENTATORS[j] IN
    [name |-> cmt.name, org |-> cmt.org, bio |-> cmt.bio,
     mono |-> IF cmt.mono # EmptyStr THEN cmt.mono
              ELSE auto_monogram(cmt.name).val]

\* the card row that a render pass is claimed to leave, for the widget
\* values c it starts from; pressed tells whether the overwrite button of the
\* card started the pass
ClaimedRow(c, pressed) ==
  IF c.select = 0 THEN c
  ELSE [f \in DOMAIN c |->
          IF f \in {"name", "org", "bio", "mono"}
               /\ (pressed \/ c[f] = EmptyStr)
          THEN ProfileFields(c.select)[f]
          ELSE c[f]]

\* both states show the form with the same cards
FormStep ==
  /\ input_mode = "form" /\ input_mode' = "form"
  /\ Len(session_state') = Len(session_state)

\* every card but i is as it was
OthersKept(i) ==
  \A j \in (1..Len(session_state)) \ {i} :
    session_state'[j] = session_state[j]

\* C17: in form mode, a selection change fills from the chosen profile the
\* fields of the card that are empty and leaves its other fields as they
\* were; the overwrite button with a commentator selected sets name, org, bio
\* and monogram to the profile; an edit is kept unless it empties a field of
\* a card with a commentator selected; with the manual entry selected a pass
\* changes nothing; the other cards keep their fields
C17_ProfileReflectedIntoEmptyFields ==
  /\ [](input_mode = "form" =>
          \A i \in Displayed :
            session_state[i].select # 0 =>
              FormLoop(session_state, 1, i, DefaultBar, <<>>).form
                = [session_state EXCEPT
                     ![i] = ClaimedRow(session_state[i], TRUE)])
  /\ [][FormStep =>
          /\ \A i \in 1..Len(session_state) :
               session_state'[i].select # session_state[i].select =>
                 /\ session_state'[i] =
                      ClaimedRow([session_state[i] EXCEPT
                                    !.select = session_state'[i].select], FALSE)
                 /\ OthersKept(i)
          /\ (/\ \A i \in 1..Len(session_state) :
                    session_state'[i].select = session_state[i].select
               /\ session_state' # session_state) =>
                 \E i \in 1..Len(session_state) :
                   /\ OthersKept(i)
                   /\ \/ /\ session_state[i].select # 0
                         /\ session_state'[i] = ClaimedRow(session_state[i], TRUE)
                      \/ \E k \in {"name", "mono"} :
                           \E v \in TypedValues[k] :
                             session_state'[i] =
                               ClaimedRow([session_state[i] EXCEPT ![k] = v],
                                          FALSE)
          /\ use_grouping' # use_grouping => session_state' = session_state
     ]_vars

\* a card whose typed name was kept and whose empty monogram, org and bio
\* were taken from the selected commentator
C17_Witness ==
  /\ input_mode = "form"
  /\ session_state[1].select = 1
  /\ session_state[1].name = <<"X", SP, "Z">>
  /\ session_state[1].org = ProfileFields(1).org
  /\ session_state[1].bio = ProfileFields(1).bio
  /\ session_state[1].mono = ProfileFields(1).mono

(***************************************************************************)
(* SpecModes: one row rendered alone and as the only entry of its group    *)
(***************************************************************************)
ModeNames == {EmptyStr, <<"T">>, <<SP, "T">>, <<"Y", SP, "T">>, <<SP>>}
ModeLinks == {EmptyStr, <<SP>>, <<"u">>, <<SP, "u", SP>>}

\* the row of the two calls
ModeRow ==
  [BaseRow EXCEPT !.name = fn.full_name, !.monogram = fn.monogram,
                  !.link = fn.link]

InitModes ==
  /\ fn \in [full_name : ModeNames, monogram : Overrides, link : ModeLinks]
  /\ ret = NotCalled
  /\ cards_data = <<>>
  /\ use_grouping = TRUE
  /\ header = DefaultHeader
  /\ grouped = <<>>
  /\ cards_html_list = <<>>
  /\ full_html = NoDoc
  /\ raised = "none"
  /\ input_mode = "form"
  /\ uploaded = NoFile
  /\ session_state = <<>>
  /\ messages = <<>>

\* the loop over cards_data with grouping off, on the one row
RenderAlone ==
  /\ ret = NotCalled
  /\ \E r \in {RenderSingleAt(<<ModeRow>>, 1)} :
       ret' = [op |-> "render_card", exc |-> r.exc, val |-> r.val]
  /\ UNCHANGED <<fn>>
  /\ UNCHANGED renderVars
  /\ UNCHANGED uiVars

\* group_cards_by_article and the loop over grouped, on the one row
RenderAsGroup ==
  /\ grouped = <<>>
  /\ \E g \in {group_cards_by_article(<<ModeRow>>)} :
       \E r \in {RenderGroupedAt(g, 1)} :
         /\ grouped' = g
         /\ cards_html_list' = IF r.exc = "none" THEN <<r.val>> ELSE <<>>
         /\ raised' = r.exc
  /\ UNCHANGED <<use_grouping, header, cards_data, full_html>>
  /\ UNCHANGED fnVars
  /\ UNCHANGED uiVars

NextModes == RenderAlone \/ RenderAsGroup

SpecModes == InitModes /\ [][NextModes]_vars

\* both calls were made on the row and both returned a fragment
BothRendered ==
  /\ ret.op = "render_card" /\ ret.exc = "none"
  /\ cards_html_list # <<>>

\* C18: a row rendered alone and the same row rendered as the only entry of
\* its group display the same monogram character and the same link target,
\* whatever whitespace the override, the name and the link hold
C18_ModesAgreeOnLoneRow ==
  BothRendered =>
    /\ Len(grouped) = 1 /\ Len(grouped[1].entries) = 1
    /\ cards_html_list[1].blocks[1].mono = ret.val.mono
    /\ cards_html_list[1].chips[1].m = ret.val.mono
    /\ cards_html_list[1].link_url = ret.val.link_url

\* the two renderings agree when neither the override nor the link starts
\* or ends with whitespace
ModesAgreeOnTrimmedRow ==
  (/\ BothRendered
   /\ fn.monogram = strip(fn.monogram)
   /\ fn.link = strip(fn.link)) =>
    /\ cards_html_list[1].blocks[1].mono = ret.val.mono
    /\ cards_html_list[1].link_url = ret.val.link_url

====
